---- MODULE Spec2Model ----
(***************************************************************************)
(* The on-disk persistence codec of Kindelia (src/src/persistence.rs):     *)
(* trait DiskSer and its implementations for u8, i128, u128, HashMap,      *)
(* Vec, Arc and CompFunc.                                                  *)
(*                                                                         *)
(* A u8 is a number in 0..255.  A 128-bit integer is the set of the        *)
(* positions (0 = least significant) of its one bits, so that its value is *)
(* the sum of 2^p over the set (for i128, in two's complement: position    *)
(* 127 weighs -2^127).  A byte stream is a sequence of numbers in 0..255.  *)
(* The sink is a Vec<u8>-like writer (write appends the whole buffer and   *)
(* returns its length); the source is a slice-like reader (read transfers  *)
(* min(buffer length, bytes left) bytes and returns that count).           *)
(***************************************************************************)
EXTENDS Integers, Sequences, FiniteSets, TLC

VARIABLES
  phase,    \* "start" | "written" | "decoding" | "done"
  ty,       \* the type whose codec is exercised
  origin,   \* how the bytes of the stream were produced
  sink,     \* the bytes written by disk_serialize
  written,  \* the count disk_serialize returned
  cut,      \* how many trailing bytes of the sink the source lacks
  src0,     \* the source at the start of the current top-level decode
  source,   \* the unread bytes of the source
  stack,    \* the disk_deserialize calls in progress, innermost last
  ret,      \* what the call that returned last returned
  round,    \* 1: first top-level decode of the stream, 2: the second
  first     \* the result of the first top-level decode (round 2)

vars == <<phase, ty, origin, sink, written, cut, src0, source, stack, ret, round, first>>

(* ------------------------------ bounds --------------------------------- *)

\* Largest number of elements of a list, or entries of a mapping, encoded.
MaxLen == 3
\* Largest number of (key, value) records of a hand-made mapping stream.
MaxPairs == 3
\* Largest number of elements of a second container written after a first.
MaxSecond == 1
\* Largest number of bytes of a hand-made stream of bytes.
MaxBytes == 3
\* Number of elements a list can hold before its allocation fails.
MemLimit == 12

(* --------------------------- program constants ------------------------- *)

\* const BYTES : usize = (u128::BITS / 8) as usize
BYTES == 16
\* const AT_MOST : usize = BYTES-1
AT_MOST == BYTES - 1
\* u128::BITS, i128::BITS
BITS == 128
\* usize::BITS of the 64-bit targets the node is built for (len as usize)
USIZE_BITS == 64

(* ------------------------------ types ---------------------------------- *)

U8 == <<"u8">>
I128 == <<"i128">>
U128 == <<"u128">>
CompFunc == <<"compfunc">>
VecOf(K) == <<"vec", K>>
MapOf(K, V) == <<"map", K, V>>
ArcOf(T) == <<"arc", T>>

Tag(t) == t[1]

\* Vec<K> and HashMap<K, V>: the codecs without a length field.
IsGreedy(t) == Tag(t) \in {"vec", "map"}

\* The codec instantiations exercised.
Types ==
  { U8, I128, U128, CompFunc,
    VecOf(U8), VecOf(U128), VecOf(I128), VecOf(CompFunc),
    MapOf(U8, U8), MapOf(U8, U128), MapOf(U128, U8), MapOf(U8, ArcOf(CompFunc)),
    ArcOf(U8), ArcOf(U128), ArcOf(CompFunc), ArcOf(VecOf(U8)), VecOf(ArcOf(U8)),
    VecOf(VecOf(U8)), VecOf(MapOf(U8, U8)),
    MapOf(U8, VecOf(U8)), MapOf(VecOf(U8), U8), MapOf(VecOf(U8), VecOf(U8)) }

(* ------------------------------ integers ------------------------------- *)

Min(a, b) == IF a < b THEN a ELSE b

RECURSIVE Pow2(_)
Pow2(n) == IF n = 0 THEN 1 ELSE 2 * Pow2(n - 1)

\* Bit b of the byte x.
BitOf(x, b) == (x \div Pow2(b)) % 2

\* The byte made of bits 8k .. 8k+7 of the integer v.
ByteAt(v, k) ==
  LET W(b) == IF 8 * k + b \in v THEN Pow2(b) ELSE 0
  IN  W(0) + W(1) + W(2) + W(3) + W(4) + W(5) + W(6) + W(7)

\* Mutant: the most significant byte first.
to_be_bytes(v) == [i \in 1..BYTES |-> ByteAt(v, BYTES - i)]
\* u128::to_le_bytes, i128::to_le_bytes: least significant byte first.
to_le_bytes(v) == [i \in 1..BYTES |-> ByteAt(v, i - 1)]

\* u128::from_le_bytes, i128::from_le_bytes.
from_le_bytes(buf) ==
  {p \in 0..(BITS - 1) : BitOf(buf[(p \div 8) + 1], p % 8) = 1}

\* u8::to_le_bytes and u8::from_le_bytes: the one byte is the number.
u8_to_le_bytes(v) == <<v>>
u8_from_le_bytes(buf) == buf[1]

\* `len as usize`: the low USIZE_BITS bits of a u128.
AsUsize(v) == {p \in v : p < USIZE_BITS}

\* `func_buff.len() as u128`.
AsU128(n) == {p \in 0..15 : BitOf(n, p) = 1}

\* A number no stream of the model is as long as.
Huge == Pow2(20)

\* The value of an unsigned integer, saturated at Huge.
RECURSIVE SumBits(_)
SumBits(v) ==
  IF v = {} THEN 0
  ELSE LET p == CHOOSE q \in v : TRUE IN Pow2(p) + SumBits(v \ {p})
NatOf(v) == IF \E p \in v : p >= 20 THEN Huge ELSE SumBits(v)

(* ----------------- external collaborators (crate::hvm, crate::bits) ---- *)

\* Raw functions: two the compiler accepts, one it rejects.
Funcs == {"fnA", "fnB", "fnBad"}

\* Func::proto_serialized().to_bytes(): the bit-packed bytes of a raw function.
Pack(f) ==
  CASE f = "fnA" -> <<7>>
    [] f = "fnB" -> <<7, 9>>
    [] f = "fnBad" -> <<8>>

\* Func::proto_deserialized(BitVec::from_bytes(buf)): None for malformed bytes.
Unpack(buf) ==
  IF \E f \in Funcs : Pack(f) = buf
  THEN [kind |-> "some", val |-> CHOOSE f \in Funcs : Pack(f) = buf]
  ELSE [kind |-> "none", val |-> <<>>]

\* compile_func(func, false): None for a function the compiler rejects.
compile_func(f) ==
  IF f = "fnBad"
  THEN [kind |-> "none", val |-> <<>>]
  ELSE [kind |-> "some", val |-> [func |-> f]]

(* ------------------------------ results -------------------------------- *)

\* IoResult<Option<T>>: Ok(None), Ok(Some(v)), Err(kind); and a panic or abort.
OkNone == [kind |-> "none", val |-> <<>>]
OkSome(v) == [kind |-> "some", val |-> v]
Err(e) == [kind |-> "err", val |-> e]
Crash(why) == [kind |-> "crash", val |-> why]
\* No call has returned yet.
Pending == [kind |-> "pending", val |-> <<>>]

(* ------------------------------ the stream ----------------------------- *)

\* sink.write(buf): the bytes appended and the count returned.
Write(buf) == [bytes |-> buf, n |-> Len(buf)]

\* Two writes in a row, their counts summed.
Then(a, b) == [bytes |-> a.bytes \o b.bytes, n |-> a.n + b.n]

\* Nothing written.
Nothing == [bytes |-> <<>>, n |-> 0]

\* source.read(&mut buf) with a buffer of n bytes: the bytes obtained, their
\* count and the bytes left unread.
Read(src, n) ==
  LET k == Min(n, Len(src))
  IN  [got |-> SubSeq(src, 1, k), n |-> k, rest |-> SubSeq(src, k + 1, Len(src))]

\* let mut buf = [0; n], overwritten by the bytes a read obtained.
Buf(got, n) == [i \in 1..n |-> IF i <= Len(got) THEN got[i] ELSE 0]

(* ------------------------------ encoding ------------------------------- *)

\* disk_serialize of a value v of type t: the set of its possible outcomes
\* (bytes written, count returned).  A HashMap is iterated in any order.
RECURSIVE disk_serialize(_, _), VecSerialize(_, _, _), MapSerialize(_, _, _, _)

\* impl DiskSer for u8 / i128 / u128: sink.write(&self.to_le_bytes()).
u8_disk_serialize(v) == Write(u8_to_le_bytes(v))
i128_disk_serialize(v) == Write(to_le_bytes(v))
u128_disk_serialize(v) == Write(to_le_bytes(v))

\* impl DiskSer for Vec<K>: the elements from the i-th on, in list order.
VecSerialize(K, v, i) ==
  IF i > Len(v) THEN {Nothing}
  ELSE {Then(e, r) : e \in disk_serialize(K, v[i]), r \in VecSerialize(K, v, i + 1)}

\* impl DiskSer for HashMap<K, V, H>: the entries with keys in ks, key then value.
MapSerialize(K, V, m, ks) ==
  IF ks = {} THEN {Nothing}
  ELSE UNION {{Then(Then(a, b), r) : a \in disk_serialize(K, k),
                                    b \in disk_serialize(V, m[k]),
                                    r \in MapSerialize(K, V, m, ks \ {k})} : k \in ks}

\* impl DiskSer for Arc<T>: the wrapped value's encoding.
ArcSerialize(T, v) == disk_serialize(T, v.deref)

\* impl DiskSer for CompFunc: a u128 length, then the packed raw function.
CompFuncSerialize(v) ==
  LET func_buff == Pack(v.func)
      size == AsU128(Len(func_buff))
  IN  {Then(a, b) : a \in disk_serialize(U128, size),
                    b \in disk_serialize(VecOf(U8), func_buff)}

disk_serialize(t, v) ==
  CASE Tag(t) = "u8" -> {u8_disk_serialize(v)}
    [] Tag(t) = "i128" -> {i128_disk_serialize(v)}
    [] Tag(t) = "u128" -> {u128_disk_serialize(v)}
    [] Tag(t) = "vec" -> VecSerialize(t[2], v, 1)
    [] Tag(t) = "map" -> MapSerialize(t[2], t[3], v, DOMAIN v)
    [] Tag(t) = "arc" -> ArcSerialize(t[2], v)
    [] Tag(t) = "compfunc" -> CompFuncSerialize(v)

(* ------------------------------ decoding ------------------------------- *)

\* <u8 as DiskSer>::disk_deserialize: the result and the bytes left unread.
u8_disk_deserialize(src) ==
  LET r == Read(src, 1)
      buf == Buf(r.got, 1)
  IN  [res |-> IF r.n = 0 THEN OkNone ELSE OkSome(u8_from_le_bytes(buf)),
       rest |-> r.rest]

\* Mutant: no arm for 1..=AT_MOST, as in the u8 codec.
i128_short_is_value(src) ==
  LET r == Read(src, BYTES)
      buf == Buf(r.got, BYTES)
  IN  [res |-> IF r.n = 0 THEN OkNone ELSE OkSome(from_le_bytes(buf)),
       rest |-> r.rest]
\* <i128 as DiskSer>::disk_deserialize.
i128_disk_deserialize(src) ==
  LET r == Read(src, BYTES)
      buf == Buf(r.got, BYTES)
  IN  [res |-> CASE r.n = 0 -> OkNone
                 [] r.n \in 1..AT_MOST -> Err("UnexpectedEof")
                 [] OTHER -> OkSome(from_le_bytes(buf)),
       rest |-> r.rest]

\* Mutant: a short read taken for the end of the data.
u128_short_is_end(src) ==
  LET r == Read(src, BYTES)
      buf == Buf(r.got, BYTES)
  IN  [res |-> IF r.n <= AT_MOST THEN OkNone ELSE OkSome(from_le_bytes(buf)),
       rest |-> r.rest]
\* <u128 as DiskSer>::disk_deserialize.
u128_disk_deserialize(src) ==
  LET r == Read(src, BYTES)
      buf == Buf(r.got, BYTES)
  IN  [res |-> CASE r.n = 0 -> OkNone
                 [] r.n \in 1..AT_MOST -> Err("UnexpectedEof")
                 [] OTHER -> OkSome(from_le_bytes(buf)),
       rest |-> r.rest]

\* Mutant: a payload that does not unpack or compile taken for the end of the data.
CompFuncPayloadLenient(len128, src) ==
  LET len == AsUsize(len128)
      r == Read(src, NatOf(len))
      func == Unpack(r.got)
      comp == compile_func(func.val)
  IN  CASE (USIZE_BITS - 1) \in len -> [res |-> Crash("capacity overflow"), rest |-> src]
        [] r.n # NatOf(len) -> [res |-> Err("UnexpectedEof"), rest |-> r.rest]
        [] func.kind = "none" -> [res |-> OkNone, rest |-> r.rest]
        [] comp.kind = "none" -> [res |-> OkNone, rest |-> r.rest]
        [] OTHER -> [res |-> OkSome(comp.val), rest |-> r.rest]
\* <CompFunc as DiskSer>::disk_deserialize from the length on: the payload
\* read, the unpacking and the compilation.  vec![0; len] panics for a len
\* above isize::MAX.
CompFuncPayload(len128, src) ==
  LET len == AsUsize(len128)
      r == Read(src, NatOf(len))
      func == Unpack(r.got)
      comp == compile_func(func.val)
  IN  CASE (USIZE_BITS - 1) \in len -> [res |-> Crash("capacity overflow"), rest |-> src]
        [] r.n # NatOf(len) -> [res |-> Err("UnexpectedEof"), rest |-> r.rest]
        [] func.kind = "none" -> [res |-> Err("InvalidData"), rest |-> r.rest]
        [] comp.kind = "none" -> [res |-> Err("InvalidData"), rest |-> r.rest]
        [] OTHER -> [res |-> OkSome(comp.val), rest |-> r.rest]

\* Mutant: a wrapper that demands a value.
ArcMapStrict(r) ==
  CASE r.kind = "some" -> OkSome([deref |-> r.val])
    [] r.kind = "none" -> Err("UnexpectedEof")
    [] OTHER -> r
\* Ok(t.map(Arc::new)), after the ? on the inner result.
ArcMap(r) == IF r.kind = "some" THEN OkSome([deref |-> r.val]) ELSE r

\* HashMap::with_hasher(H::default()) and slf.insert(key, val).
EmptyMap == [k \in {} |-> 0]
\* Mutant: an insert that keeps the value a key already has.
InsertKeepFirst(slf, key, val) ==
  [k \in (DOMAIN slf) \cup {key} |-> IF k \in DOMAIN slf THEN slf[k] ELSE val]
Insert(slf, key, val) ==
  [k \in (DOMAIN slf) \cup {key} |-> IF k = key THEN val ELSE slf[k]]

\* Vec::new() and res.push(elem).
\* Mutant: the element put in front.
PushFront(res, elem) == <<elem>> \o res
Push(res, elem) == Append(res, elem)

\* A disk_deserialize call in progress: its type, where it stands, the
\* container built so far and the key waiting for its value.
Frame(t, pc, acc) == [ty |-> t, pc |-> pc, acc |-> acc, key |-> <<>>]

\* Entering T::disk_deserialize: the calls it makes before its first read.
RECURSIVE Call(_)
Call(t) ==
  CASE Tag(t) \in {"u8", "i128", "u128"} -> <<Frame(t, "read", <<>>)>>
    [] Tag(t) = "vec" -> <<Frame(t, "elem", <<>>)>> \o Call(t[2])
    [] Tag(t) = "map" -> <<Frame(t, "key", EmptyMap)>> \o Call(t[2])
    [] Tag(t) = "arc" -> <<Frame(t, "inner", <<>>)>> \o Call(t[2])
    [] Tag(t) = "compfunc" -> <<Frame(t, "len", <<>>)>> \o Call(U128)

(* ------------------------------ inputs --------------------------------- *)

SeqsUpTo(S, n) == UNION {[1..k -> S] : k \in 0..n}

\* 128-bit integers of note: 0, 1, 2^8, 2^64, 2^127 (the i128 minimum),
\* 2^127 - 1 (the i128 maximum) and 2^128 - 1 (the u128 maximum, the i128 -1).
Wide0 == {}
Wide1 == {0}
Wide256 == {8}
WideTwo64 == {USIZE_BITS}
WideTop == {BITS - 1}
WideAllButTop == 0..(BITS - 2)
WideAll == 0..(BITS - 1)

\* The types whose encoding has an end of its own (fixed width or length prefix).
RECURSIVE IsFramed(_)
IsFramed(t) ==
  CASE Tag(t) \in {"u8", "i128", "u128", "compfunc"} -> TRUE
    [] Tag(t) = "arc" -> IsFramed(t[2])
    [] OTHER -> FALSE

\* The scalars encoded on their own, and those put into a container.
Scalars(t, top) ==
  CASE Tag(t) = "u8" -> IF top THEN 0..255 ELSE {1, 2, 3}
    [] Tag(t) = "i128" ->
         IF top THEN {Wide0, Wide1, Wide256, WideTop, WideAllButTop, WideAll}
         ELSE {Wide1, WideAll}
    [] Tag(t) = "u128" ->
         IF top THEN {Wide0, Wide1, Wide256, WideTwo64, WideTop, WideAll}
         ELSE {Wide1, {8, USIZE_BITS}}

\* A container of containers, or a wrapper around one.
RECURSIVE Nested(_)
Nested(t) ==
  CASE Tag(t) = "vec" -> ~IsFramed(t[2])
    [] Tag(t) = "map" -> ~IsFramed(t[2]) \/ ~IsFramed(t[3])
    [] Tag(t) = "arc" -> Nested(t[2])
    [] OTHER -> FALSE

\* The values of type t encoded, their containers of at most n elements.
RECURSIVE Values(_, _, _)
Values(t, n, top) ==
  CASE Tag(t) \in {"u8", "i128", "u128"} -> Scalars(t, top)
    [] Tag(t) = "vec" -> SeqsUpTo(Values(t[2], n, FALSE), n)
    [] Tag(t) = "map" ->
         UNION {[ks -> Values(t[3], n, FALSE)] :
                  ks \in {x \in SUBSET Values(t[2], n, FALSE) : Cardinality(x) <= n}}
    [] Tag(t) = "arc" -> {[deref |-> x] : x \in Values(t[2], n, top)}
    [] Tag(t) = "compfunc" -> {compile_func(f).val : f \in {g \in Funcs : compile_func(g).kind = "some"}}

\* Hand-made streams of records: the keys and values they hold.
PairVals(t) ==
  CASE Tag(t) = "u8" -> {1, 2}
    [] Tag(t) \in {"i128", "u128"} -> {Wide1, {8, USIZE_BITS}}
    [] t = VecOf(U8) -> {<<1>>, <<2>>}
    [] OTHER -> {}

\* Hand-made function slots: the length prefixes and the payloads.
SlotLens == {Wide0, Wide1, {1}, {0, 1}, WideTwo64, {0, USIZE_BITS}}
SlotPayloads == {<<>>, Pack("fnA"), Pack("fnB"), Pack("fnBad"), <<5>>, <<5, 5>>, <<7, 9, 5>>}
IsSlot(t) == t \in {CompFunc, ArcOf(CompFunc), VecOf(CompFunc)}

\* The bytes of a sequence of records, each key followed by its value.
RECURSIVE PairBytes(_, _, _)
PairBytes(K, V, ps) ==
  IF ps = <<>> THEN <<>>
  ELSE (CHOOSE e \in disk_serialize(K, ps[1][1]) : TRUE).bytes
       \o (CHOOSE e \in disk_serialize(V, ps[1][2]) : TRUE).bytes
       \o PairBytes(K, V, Tail(ps))

(* ------------------------------ the program ---------------------------- *)

NoOrigin == [kind |-> "none", val |-> <<>>]

Init ==
  /\ phase = "start"
  /\ ty \in Types
  /\ origin = NoOrigin
  /\ sink = <<>>
  /\ written = 0
  /\ cut = 0
  /\ src0 = <<>>
  /\ source = <<>>
  /\ stack = <<>>
  /\ ret = Pending
  /\ round = 1
  /\ first = Pending

\* value.disk_serialize(&mut sink) on an empty sink.
Serialize ==
  /\ phase = "start"
  /\ ~Nested(ty)
  /\ \E v \in Values(ty, MaxLen, TRUE) : \E w \in disk_serialize(ty, v) :
       /\ sink' = w.bytes
       /\ written' = w.n
       /\ origin' = [kind |-> "value", val |-> v]
  /\ phase' = "written"
  /\ UNCHANGED <<ty, cut, src0, source, stack, ret, round, first>>

\* A second container written to the same sink, right after the first.
SerializeMore ==
  /\ phase = "written"
  /\ origin.kind = "value"
  /\ IsGreedy(ty)
  /\ \E v \in Values(ty, MaxSecond, FALSE) : \E w \in disk_serialize(ty, v) :
       /\ sink' = sink \o w.bytes
       /\ written' = w.n
       /\ origin' = [kind |-> "two", val |-> <<origin.val, v>>]
  /\ UNCHANGED <<phase, ty, cut, src0, source, stack, ret, round, first>>

\* A stream of complete records not written by one HashMap: keys may repeat.
CraftPairs ==
  /\ phase = "start"
  /\ Tag(ty) = "map"
  /\ \E ps \in SeqsUpTo(PairVals(ty[2]) \X PairVals(ty[3]), MaxPairs) :
       /\ ps # <<>>
       /\ sink' = PairBytes(ty[2], ty[3], ps)
       /\ origin' = [kind |-> "pairs", val |-> ps]
  /\ phase' = "written"
  /\ UNCHANGED <<ty, written, cut, src0, source, stack, ret, round, first>>

\* A function slot not written by the encoder: any length prefix, any payload.
CraftSlot ==
  /\ phase = "start"
  /\ IsSlot(ty)
  /\ \E len \in SlotLens, payload \in SlotPayloads :
       /\ sink' = to_le_bytes(len) \o payload
       /\ origin' = [kind |-> "slot", val |-> [len |-> len, payload |-> payload]]
  /\ phase' = "written"
  /\ UNCHANGED <<ty, written, cut, src0, source, stack, ret, round, first>>

\* Any short stream of bytes, for the containers of containers of bytes.
CraftBytes ==
  /\ phase = "start"
  /\ Nested(ty)
  /\ \E bs \in SeqsUpTo({1, 2}, MaxBytes) :
       /\ sink' = bs
       /\ origin' = [kind |-> "bytes", val |-> bs]
  /\ phase' = "written"
  /\ UNCHANGED <<ty, written, cut, src0, source, stack, ret, round, first>>

\* The reader opens the stream, whole or (an encoded value) without its last
\* c bytes, c up to a 16-byte scalar or the whole stream, and calls T::disk_deserialize(&mut source).
Open ==
  /\ phase = "written"
  /\ \E c \in IF origin.kind = "value"
              THEN (0..Min(BYTES, Len(sink))) \cup {Len(sink)}
              ELSE {0} :
       /\ cut' = c
       /\ source' = SubSeq(sink, 1, Len(sink) - c)
       /\ src0' = SubSeq(sink, 1, Len(sink) - c)
  /\ stack' = Call(ty)
  /\ ret' = Pending
  /\ phase' = "decoding"
  /\ UNCHANGED <<ty, origin, sink, written, round, first>>

Top == stack[Len(stack)]
Below == SubSeq(stack, 1, Len(stack) - 1)

\* The innermost call is a disk_deserialize of the codec `tag`, standing at pc.
Running(tag, pc) ==
  /\ phase = "decoding"
  /\ stack # <<>>
  /\ Tag(Top.ty) = tag
  /\ Top.pc = pc

\* The innermost call returns r to its caller.
Return(r) ==
  /\ stack' = Below
  /\ ret' = r
  /\ phase' = IF Below = <<>> THEN "done" ELSE "decoding"

\* The innermost call goes on as `frame` and calls T::disk_deserialize.
Continue(frame, T) ==
  /\ stack' = Below \o <<frame>> \o Call(T)
  /\ ret' = Pending
  /\ phase' = phase

U8Read ==
  /\ Running("u8", "read")
  /\ LET d == u8_disk_deserialize(source)
     IN  source' = d.rest /\ Return(d.res)
  /\ UNCHANGED <<ty, origin, sink, written, cut, src0, round, first>>

I128Read ==
  /\ Running("i128", "read")
  /\ LET d == i128_disk_deserialize(source)
     IN  source' = d.rest /\ Return(d.res)
  /\ UNCHANGED <<ty, origin, sink, written, cut, src0, round, first>>

U128Read ==
  /\ Running("u128", "read")
  /\ LET d == u128_disk_deserialize(source)
     IN  source' = d.rest /\ Return(d.res)
  /\ UNCHANGED <<ty, origin, sink, written, cut, src0, round, first>>

\* <Vec<K> as DiskSer>::disk_deserialize, one turn of
\* `while let Some(elem) = K::disk_deserialize(source)? { res.push(elem); }`.
VecLoop ==
  /\ Running("vec", "elem")
  /\ CASE ret.kind = "some" ->
            IF Len(Top.acc) >= MemLimit
            THEN Return(Crash("out of memory"))
            ELSE Continue([Top EXCEPT !.acc = Push(@, ret.val)], Top.ty[2])
       [] ret.kind = "none" -> Return(OkSome(Top.acc))
       [] OTHER -> Return(ret)
  /\ UNCHANGED <<ty, origin, sink, written, cut, src0, source, round, first>>

\* <HashMap<K, V, H> as DiskSer>::disk_deserialize, the key of one turn of
\* `while let Some(key) = K::disk_deserialize(source)? { ... }`.
MapKey ==
  /\ Running("map", "key")
  /\ CASE ret.kind = "some" ->
            Continue([Top EXCEPT !.key = ret.val, !.pc = "val"], Top.ty[3])
       [] ret.kind = "none" -> Return(OkSome(Top.acc))
       [] OTHER -> Return(ret)
  /\ UNCHANGED <<ty, origin, sink, written, cut, src0, source, round, first>>

\* Mutant: a key without a value taken for the end of the mapping.
MapValLenient ==
  /\ Running("map", "val")
  /\ CASE ret.kind = "some" ->
            Continue([Top EXCEPT !.acc = Insert(@, Top.key, ret.val),
                                 !.key = <<>>, !.pc = "key"], Top.ty[2])
       [] ret.kind = "none" -> Return(OkSome(Top.acc))
       [] OTHER -> Return(ret)
  /\ UNCHANGED <<ty, origin, sink, written, cut, src0, source, round, first>>

\* The value of that turn: `let val = V::disk_deserialize(source)?`, then the
\* insert, or the error for a key without a value.
MapVal ==
  /\ Running("map", "val")
  /\ CASE ret.kind = "some" ->
            Continue([Top EXCEPT !.acc = Insert(@, Top.key, ret.val),
                                 !.key = <<>>, !.pc = "key"], Top.ty[2])
       [] ret.kind = "none" -> Return(Err("UnexpectedEof"))
       [] OTHER -> Return(ret)
  /\ UNCHANGED <<ty, origin, sink, written, cut, src0, source, round, first>>

\* <Arc<T> as DiskSer>::disk_deserialize after T::disk_deserialize(source)?.
ArcWrap ==
  /\ Running("arc", "inner")
  /\ Return(ArcMap(ret))
  /\ UNCHANGED <<ty, origin, sink, written, cut, src0, source, round, first>>

\* <CompFunc as DiskSer>::disk_deserialize after u128::disk_deserialize(source)?.
CompFuncBody ==
  /\ Running("compfunc", "len")
  /\ IF ret.kind = "some"
     THEN LET d == CompFuncPayload(ret.val, source)
          IN  source' = d.rest /\ Return(d.res)
     ELSE source' = source /\ Return(ret)
  /\ UNCHANGED <<ty, origin, sink, written, cut, src0, round, first>>

\* A second container is decoded from the same source, right after the first.
DecodeAgain ==
  /\ phase = "done"
  /\ round = 1
  /\ IsGreedy(ty)
  /\ ret.kind = "some"
  /\ first' = ret
  /\ round' = 2
  /\ src0' = source
  /\ stack' = Call(ty)
  /\ ret' = Pending
  /\ phase' = "decoding"
  /\ UNCHANGED <<ty, origin, sink, written, cut, source>>

Next ==
  \/ Serialize
  \/ SerializeMore
  \/ CraftPairs
  \/ CraftSlot
  \/ CraftBytes
  \/ Open
  \/ U8Read
  \/ I128Read
  \/ U128Read
  \/ VecLoop
  \/ MapKey
  \/ MapVal
  \/ ArcWrap
  \/ CompFuncBody
  \/ DecodeAgain

Spec == Init /\ [][Next]_vars

(* ------------------------------ properties ----------------------------- *)

\* The first top-level decode of the stream has returned.
Done1 == phase = "done" /\ round = 1

\* The source holds exactly the bytes one disk_serialize call wrote.
Exact == origin.kind = "value" /\ cut = 0

IsScalar(t) == Tag(t) \in {"u8", "i128", "u128"}

\* The buffer length of the first read a decode of t makes.
RECURSIVE FirstWidth(_)
FirstWidth(t) ==
  CASE Tag(t) = "u8" -> 1
    [] Tag(t) \in {"i128", "u128", "compfunc"} -> BYTES
    [] OTHER -> FirstWidth(t[2])

\* A list, a mapping, or a wrapper around one.
RECURSIVE IsGreedyInside(_)
IsGreedyInside(t) ==
  CASE Tag(t) \in {"vec", "map"} -> TRUE
    [] Tag(t) = "arc" -> IsGreedyInside(t[2])
    [] OTHER -> FALSE

IsTruncation(r) == r.kind = "err" /\ r.val = "UnexpectedEof"
IsInvalidData(r) == r.kind = "err" /\ r.val = "InvalidData"

C2_ScalarRoundTrip ==
  (IsScalar(ty) /\ origin.kind = "value") =>
    /\ written = FirstWidth(ty) /\ Len(sink) = FirstWidth(ty)
    /\ IF ty = U8
       THEN sink[1] = origin.val
       ELSE \A p \in 0..(BITS - 1) :
              (p \in origin.val) <=> (BitOf(sink[(p \div 8) + 1], p % 8) = 1)
    /\ (Done1 /\ cut = 0) => (ret.kind = "some" /\ ret.val = origin.val)

C2_Witness ==
  /\ Done1 /\ cut = 0 /\ ty = I128 /\ origin.kind = "value"
  /\ origin.val = WideTop
  /\ ret.kind = "some" /\ ret.val = WideTop
  /\ sink[BYTES] = 128

\* C3: for every list of N scalars, decoding as a list a stream that holds
\* exactly the bytes of its encoding returns the same elements in the same
\* order; the empty list encodes to zero bytes and decodes from the empty
\* stream to the empty list, a successful result.
C3_ListRoundTrip ==
  (Tag(ty) = "vec" /\ IsScalar(ty[2]) /\ origin.kind = "value") =>
    /\ written = Len(sink) /\ Len(sink) = Len(origin.val) * FirstWidth(ty[2])
    /\ (Done1 /\ cut = 0) => (ret.kind = "some" /\ ret.val = origin.val)

C3_Witness ==
  /\ Done1 /\ Exact /\ ty = VecOf(U128)
  /\ Len(origin.val) = 3 /\ origin.val[1] # origin.val[2]
  /\ ret.kind = "some" /\ ret.val = origin.val

\* The mapping a sequence of records stands for: each key to the value of
\* its last occurrence.
LastWins(ps) ==
  [k \in {ps[i][1] : i \in DOMAIN ps} |->
     LET last == CHOOSE i \in DOMAIN ps :
                   ps[i][1] = k /\ \A j \in DOMAIN ps : ps[j][1] = k => j <= i
     IN  ps[last][2]]

\* What C4 says of a mapping decode that has returned.
LastOccurrenceWins ==
  /\ origin.kind = "pairs" => (ret.kind = "some" /\ ret.val = LastWins(origin.val))
  /\ Exact => (ret.kind = "some" /\ ret.val = origin.val)

\* C4 as stated: a mapping decode of any concatenation of complete (key,
\* value) encodings yields the mapping that sends each key to the value of
\* its last occurrence; so encoding a mapping and decoding the bytes
\* reproduces it, whatever order the encoder iterated in.
C4_LastOccurrenceWins ==
  (Done1 /\ Tag(ty) = "map") => LastOccurrenceWins

\* C4 amended: the same, for key and value codecs whose encoding has an end
\* of its own (scalars, wrappers around them, compiled functions), not for a
\* list or a mapping as key or value.
C4_LastOccurrenceWinsFramed ==
  (Done1 /\ Tag(ty) = "map" /\ ~Nested(ty)) => LastOccurrenceWins

C4_Witness ==
  /\ Done1 /\ ty = MapOf(U8, U128) /\ origin.kind = "pairs"
  /\ Len(origin.val) = 3
  /\ origin.val[1][1] = origin.val[3][1]
  /\ origin.val[1][2] # origin.val[3][2]
  /\ ret.kind = "some" /\ ret.val[origin.val[1][1]] = origin.val[3][2]

\* A key has been obtained and the decode of its value reported clean-end.
KeyWithoutValue == Running("map", "val") /\ ret.kind = "none"

\* C5: in a mapping decode, when a key is obtained and the decode of its
\* value reports clean-end, the mapping decode returns a truncation error
\* at once: no mapping, and the key is not inserted.
C5_KeyWithoutValue ==
  [][KeyWithoutValue =>
       /\ stack' = Below
       /\ IsTruncation(ret')
       /\ (Len(stack) = 1 => phase' = "done")]_vars

C5_Witness ==
  /\ Done1 /\ ty = MapOf(U8, U128) /\ origin.kind = "value"
  /\ Cardinality(DOMAIN origin.val) = 2
  /\ cut = BYTES
  /\ IsTruncation(ret)

\* The length prefix and the payload bytes of a function-slot stream.
SlotLen == from_le_bytes(SubSeq(src0, 1, BYTES))
SlotRest == SubSeq(src0, BYTES + 1, Len(src0))
SlotPayload == SubSeq(SlotRest, 1, NatOf(SlotLen))

\* C6: a compiled-function decode that obtained a length prefix L: fewer than
\* L payload bytes give a truncation error; L bytes the unpacker rejects give
\* an invalid-data error; L bytes of a function the compiler rejects give an
\* invalid-data error; L bytes that unpack and compile give the compiled
\* function; and zero bytes at the length prefix give clean-end.
C6_SlotOutcomes ==
  (Done1 /\ ty = CompFunc) =>
    /\ src0 = <<>> => ret.kind = "none"
    /\ Len(src0) >= BYTES =>
         IF Len(SlotRest) < NatOf(SlotLen) THEN IsTruncation(ret)
         ELSE IF Unpack(SlotPayload).kind = "none" THEN IsInvalidData(ret)
         ELSE IF compile_func(Unpack(SlotPayload).val).kind = "none" THEN IsInvalidData(ret)
         ELSE ret = compile_func(Unpack(SlotPayload).val)

\* C7: for i128 and u128 and every value v, decoding the first n bytes of
\* the encoding of v yields a truncation error for n in 1..15 and clean-end
\* for n = 0, never a value for n < 16.
C7_TruncatedScalar ==
  (Done1 /\ ty \in {I128, U128} /\ origin.kind = "value") =>
    LET n == Len(sink) - cut
    IN  /\ Len(src0) = n
        /\ n = 0 => ret.kind = "none"
        /\ n \in 1..(BYTES - 1) => IsTruncation(ret)
        /\ n < BYTES => ret.kind # "some"

C7_Witness ==
  /\ Done1 /\ ty = I128 /\ origin.kind = "value" /\ origin.val = WideAll
  /\ cut = 1
  /\ IsTruncation(ret)

\* C8: whenever a list or mapping decode returns successfully, the source
\* has no unread byte left; so a second list or mapping decoded from the
\* same source right afterwards is empty, whatever was written for it.
C8_GreedyConsumesAll ==
  /\ (Running("vec", "elem") /\ ret.kind = "none") => source = <<>>
  /\ (Running("map", "key") /\ ret.kind = "none") => source = <<>>
  /\ (phase = "done" /\ IsGreedy(ty) /\ ret.kind = "some") => source = <<>>
  /\ (phase = "done" /\ round = 2) => (ret.kind = "some" /\ ret.val = <<>>)

C8_Witness ==
  /\ phase = "done" /\ round = 2 /\ ty = VecOf(U8)
  /\ origin.kind = "two" /\ origin.val[2] # <<>>
  /\ first.kind = "some" /\ first.val = origin.val[1] \o origin.val[2]
  /\ ret.kind = "some" /\ ret.val = <<>>

\* The innermost call is a wrapper decode whose inner decode has returned.
ArcReturns == Running("arc", "inner")

\* C9: the wrapper is transparent: encoding a wrapped value writes the bytes
\* and returns the count of encoding the inner value; the wrapper decode
\* returns what the inner decode on the same source returned (clean-end stays
\* clean-end, an error the same error, a value v a handle whose content is v)
\* and consumes no byte of its own.
C9_ArcTransparent ==
  [][/\ ArcReturns =>
          /\ stack' = Below
          /\ source' = source
          /\ ret'.kind = ret.kind
          /\ IF ret.kind = "some" THEN ret'.val.deref = ret.val ELSE ret' = ret
     /\ (Tag(ty) = "arc" /\ phase = "start" /\ origin'.kind = "value") =>
          [bytes |-> sink', n |-> written'] \in disk_serialize(ty[2], origin'.val.deref)
     /\ (Tag(ty) = "arc" /\ phase = "written" /\ phase' = "decoding") =>
          stack' = <<Frame(ty, "inner", <<>>)>> \o Call(ty[2])]_vars

C9_Witness ==
  /\ Done1 /\ Exact /\ ty = ArcOf(U128)
  /\ ret.kind = "some" /\ ret.val.deref = WideTwo64
  /\ origin.val.deref = WideTwo64

\* C10: a list decode and a mapping decode over any finite stream terminate,
\* returning a container or an error, for every element, key and value
\* codec, lists and mappings among them: so a list or mapping decode that is
\* over has returned a container or an error, and has not ended otherwise
\* (it has not run until memory was exhausted).
C10_Terminates ==
  (phase = "done" /\ IsGreedy(ty)) => ret.kind \in {"some", "err"}

====
